---- MODULE Spec2Model ----
(***************************************************************************)
(* Sliding-window rate limiters of src/expert_seed/bluesky_metadata_chain.py *)
(* (TokenRateLimiter, UserRateLimiter) and the workers that share them.      *)
(*                                                                           *)
(* One limiter instance is modelled per behaviour; `kind` says which class   *)
(* it is.  Time is an integer clock; the durations of the code (a window of  *)
(* 1 minute / 1 hour, sleep slices of 5 s / 30 s, the 1 s fallback sleep)    *)
(* are scaled to a few clock units, keeping their order.                     *)
(* Every `with self.lock:` block is one step: the blocks hold no call that   *)
(* can block and touch only the window and the clock, so mutual exclusion    *)
(* makes each of them atomic.  What a thread does between two blocks (the    *)
(* clock read of _clean_old_usage, the admission check, the return) is a     *)
(* step of its own.  LockSpec does without that argument: there taking the   *)
(* lock is a step of its own, and a block runs only for the lock's holder.   *)
(***************************************************************************)
EXTENDS Integers, Sequences, FiniteSets

\* ---------------------------------------------------------------- bounds
NThreads == 2          \* worker threads sharing the limiter
Capacity == 2          \* tokens_per_minute / users_per_hour
MaxPlanned == 3        \* largest planned_token_count tried
MaxAmount == 2         \* largest token_count a single caller records
MaxTime == 3           \* the clock stops here when threads run concurrently
SeqMaxTime == 5        \* the clock stops here with a single caller
MaxEvents == 2         \* add_tokens / add_user calls of concurrent callers
SeqMaxEvents == 3      \* add_tokens / add_user calls of a single caller
MaxUsers == 3          \* length of the list handed to the worker pool
MatchUsers == 2        \* length of that list when the match counter is followed
TokenWindow == 2       \* timedelta(minutes=1), in clock units
UserWindow == 2        \* timedelta(hours=1), in clock units
TokenSleepCap == 1     \* the 5 of min(sleep_time, 5), in clock units
UserSleepCap == 1      \* the 30 of min(sleep_time, 30), in clock units
FallbackSleep == 1     \* time.sleep(1), in clock units
MaxPages == 2          \* pages one Wikipedia search returns (limit=3)
MaxRetries == 4        \* largest max_retries handed to search
MaxDelay == 2          \* largest retry_delay handed to search, in clock units
MaxAccounts == 3       \* accounts handed to download_user_profiles
MaxBatch == 2          \* largest batch_size of download_user_profiles
MaxProfiles == 3       \* profiles handed to gather_unstructured_data
MaxWorkers == 2        \* largest num_workers of gather_unstructured_data
MaxFollows == 2        \* follows on one page of get_follows
MaxRequests == 4       \* page requests followed in one call of get_follows
MaxPasses == 8         \* passes of `while True:` followed in one wait_if_needed

\* the clock's last instant when the workers run to completion: after MaxTime
\* each of the MaxUsers recorded events can hold a waiting worker for one window
LiveMaxTime ==
    MaxTime + MaxUsers * (IF TokenWindow > UserWindow THEN TokenWindow ELSE UserWindow)

Threads == 1..NThreads
None == -1

VARIABLES
    kind,           \* "token": TokenRateLimiter, "user": UserRateLimiter
    now,            \* the clock read by datetime.now() and time.time()
    usage_window,   \* self.usage_window: sequence of [ts, count]
    history,        \* every event ever appended, in append order
    todo,           \* recording calls left to start / items left in the input list
    frame,          \* per thread: where it is and its local variables
    lock,           \* self.lock: the thread that holds it, 0 when it is free
    wikipedia_matches,  \* self.wikipedia_matches of the chain the workers share
    matched,        \* how many pages verify_search_result has reported as a match
    pair,           \* a TokenRateLimiter and a UserRateLimiter driven side by side
    chain,          \* process_users of the chain: its input, self.results, calls made
    brave,          \* one call of brave_search.search
    download,       \* one call of gsa.download_user_profiles and the output file
    gather,         \* one call of gsa.gather_unstructured_data
    paging          \* one call of client.get_follows

\* the programs other than the limiter and its workers; each is off ([pc |->
\* "off"]) in the specifications that are not about it
scripts == <<pair, chain, brave, download, gather, paging>>

vars ==
    <<kind, now, usage_window, history, todo, frame, lock, wikipedia_matches,
      matched, scripts>>

\* ------------------------------------------------------- pure operators
Min(a, b) == IF a <= b THEN a ELSE b

Window(k) == IF k = "token" THEN TokenWindow ELSE UserWindow

SleepCap(k) == IF k = "token" THEN TokenSleepCap ELSE UserSleepCap

RECURSIVE SumCounts(_)
SumCounts(w) == IF w = <<>> THEN 0 ELSE Head(w).count + SumCounts(Tail(w))

\* mutant: the cutoff is taken one clock unit too late
Cutoff_Late(k, clock) == clock - Window(k) + 1

\* one_minute_ago = now - timedelta(minutes=1)
Cutoff(k, clock) == clock - Window(k)

\* mutant: an entry exactly as old as the window is kept
CleanKeep_Inclusive(ts, c) == ts >= c

\* mutant: an entry is dropped one clock unit before it is as old as the window
CleanKeep_Early(ts, c) == ts > c + 1

\* mutant: the filter keeps every entry
CleanKeep_All(ts, c) == TRUE

\* the comprehension's condition `ts > one_minute_ago`
CleanKeep(ts, c) == ts > c

\* the list comprehension of _clean_old_usage
Cleaned(w, c) == SelectSeq(w, LAMBDA e : CleanKeep(e.ts, c))

\* what get_current_usage returns under the lock
UsageOf(k, w) == IF k = "token" THEN SumCounts(w) ELSE Len(w)

\* mutant: the admission check leaves one unit of the capacity unused
Admits_Strict(k, p, usage) ==
    IF k = "token" THEN p < Capacity - usage ELSE usage + 1 < Capacity

\* mutant: the admission check lets one unit more than the capacity pass
Admits_Loose(k, p, usage) ==
    IF k = "token" THEN p <= Capacity - usage + 1 ELSE usage <= Capacity

\* mutant: the user limiter admits at its capacity (<= for <), the token
\* limiter is left as it is
Admits_UserAtCapacity(k, p, usage) ==
    IF k = "token" THEN p <= Capacity - usage ELSE usage <= Capacity

\* the admission check of wait_if_needed
Admits(k, p, usage) ==
    IF k = "token" THEN p <= Capacity - usage ELSE usage < Capacity

\* index of the first entry at which cumulative_freed >= tokens_to_free, 0 if none
RECURSIVE FirstFreeing(_, _, _, _)
FirstFreeing(w, i, cumulative_freed, tokens_to_free) ==
    IF i > Len(w) THEN 0
    ELSE IF cumulative_freed + w[i].count >= tokens_to_free THEN i
    ELSE FirstFreeing(w, i + 1, cumulative_freed + w[i].count, tokens_to_free)

\* mutant: the release instant is always taken from the oldest entry
WaitUntilOf_Oldest(k, w, p, usage) == w[1].ts + Window(k)

\* wait_until as computed under the lock on a non-empty window
WaitUntilOf(k, w, p, usage) ==
    IF k = "token"
    THEN LET i == FirstFreeing(w, 1, 0, p - (Capacity - usage))
         IN IF i = 0 THEN None ELSE w[i].ts + Window(k)
    ELSE w[1].ts + Window(k)

\* ------------------------------------------------------------------ Init
\* a thread that is in no call: pc, the method called (op), and the locals
\*   planned        planned_token_count / token_count
\*   cleanFor       who called _clean_old_usage
\*   cutoff         one_minute_ago / one_hour_ago
\*   current_usage, wait_until, start_wait, wait_time   as in wait_if_needed
\*   wake_at        the instant the thread's time.sleep may return
\*   entry_fits     did the planned amount fit when wait_if_needed was entered
\*   result         the value the call returned
\*   loaded         the value of self.wikipedia_matches read by `+= 1`
\* A local is reset once no later statement reads it.
IdleFrame ==
    [pc |-> "idle", op |-> "none", planned |-> 0, cleanFor |-> "none",
     cutoff |-> 0, current_usage |-> 0, wait_until |-> None, start_wait |-> 0,
     wait_time |-> 0, wake_at |-> 0, entry_fits |-> FALSE, result |-> None,
     loaded |-> 0]

\* a program that is not running
Off == [pc |-> "off"]

ScriptsOff ==
    /\ pair = Off
    /\ chain = Off
    /\ brave = Off
    /\ download = Off
    /\ gather = Off
    /\ paging = Off

InitWith(budget) ==
    /\ kind \in {"token", "user"}
    /\ now = 0
    /\ usage_window = <<>>
    /\ history = <<>>
    /\ todo = budget
    /\ frame = [t \in Threads |-> IdleFrame]
    /\ lock = 0
    /\ wikipedia_matches = 0
    /\ matched = 0
    /\ ScriptsOff

\* the amounts a caller may plan: any for tokens, one user at a time
Amounts == IF kind = "token" THEN 1..MaxPlanned ELSE {1}

\* the amounts a single caller may record
Recorded == IF kind = "token" THEN 1..MaxAmount ELSE {1}

\* thread t continues with frame f
Goto(t, f) == frame' = [frame EXCEPT ![t] = f]

\* ------------------------------------------------------------------ the lock
\* mutant: leaving the with block does not release the lock
Unlock_Kept == lock' = lock

\* the end of a `with self.lock:` block (also when it is left by `break`)
Unlock == lock' = 0

\* --------------------------------------------------------------- the clock
TickTo(last) ==
    /\ now < last
    /\ now' = now + 1
    /\ UNCHANGED <<kind, usage_window, history, todo, frame, lock,
                   wikipedia_matches, matched, scripts>>

\* ---------------------------------------------------- add_tokens / add_user
\* mutant: the timestamp of the event runs against the clock
NewEvent_Backwards(clock, n) == [ts |-> MaxTime - clock, count |-> n]

\* the event add_tokens / add_user appends
NewEvent(clock, n) == [ts |-> clock, count |-> n]

\* mutant: the record evicts the expired entries before it appends
AddBody_Evicting(t, n) ==
    /\ usage_window' =
           Append(Cleaned(usage_window, Cutoff(kind, now)), NewEvent(now, n))
    /\ history' = Append(history, NewEvent(now, n))
    /\ Goto(t, IdleFrame)
    /\ UNCHANGED <<kind, now, wikipedia_matches, matched, scripts>>
    /\ Unlock

\* with self.lock: self.usage_window.append((datetime.now(), token_count))
AppendEvent(n) ==
    /\ usage_window' = Append(usage_window, NewEvent(now, n))
    /\ history' = Append(history, NewEvent(now, n))
    /\ Unlock
    /\ UNCHANGED <<kind, now, wikipedia_matches, matched, scripts>>

\* add_tokens / add_user return nothing, and the direct caller goes on
AddBody(t, n) ==
    /\ AppendEvent(n)
    /\ Goto(t, IdleFrame)

\* a direct call of add_tokens(n) / add_user() by an idle thread
CallAdd(t, n) ==
    /\ frame[t].pc = "idle"
    /\ todo > 0
    /\ todo' = todo - 1
    /\ AddBody(t, n)

\* ------------------------------------------------------- _clean_old_usage
\* now = datetime.now(); one_minute_ago = now - timedelta(minutes=1)
CleanNow(t) ==
    /\ frame[t].pc = "clean_now"
    /\ Goto(t, [frame[t] EXCEPT !.pc = "clean_lock",
                                !.cutoff = Cutoff(kind, now)])
    /\ UNCHANGED <<kind, now, usage_window, history, todo, lock,
                   wikipedia_matches, matched, scripts>>

\* with self.lock: the filtered list replaces self.usage_window; control
\* returns to get_current_usage, or to the top of wait_if_needed's loop (whose
\* first statement is the call of get_current_usage)
CleanBody(t) ==
    /\ frame[t].pc = "clean_lock"
    /\ usage_window' = Cleaned(usage_window, frame[t].cutoff)
    /\ IF frame[t].cleanFor = "get_current_usage"
       THEN Goto(t, [frame[t] EXCEPT !.pc = "sum_lock"])
       ELSE Goto(t, [frame[t] EXCEPT !.pc = "clean_now", !.cutoff = 0,
                                     !.cleanFor = "get_current_usage"])
    /\ UNCHANGED <<kind, now, history, todo, wikipedia_matches, matched,
                   scripts>>
    /\ Unlock

\* ------------------------------------------------------ get_current_usage
\* a direct call of get_current_usage by an idle thread: its first statement
\* is the call of _clean_old_usage
CallGetCurrentUsage(t) ==
    /\ frame[t].pc = "idle"
    /\ Goto(t, [IdleFrame EXCEPT !.pc = "clean_now", !.op = "get_current_usage",
                                 !.cleanFor = "get_current_usage"])
    /\ UNCHANGED <<kind, now, usage_window, history, todo, lock,
                   wikipedia_matches, matched, scripts>>

\* with self.lock: return sum(count for _, count in self.usage_window) / len(self.usage_window),
\* to the direct caller or into current_usage of wait_if_needed
SumBody(t) ==
    /\ frame[t].pc = "sum_lock"
    /\ IF frame[t].op = "get_current_usage"
       THEN Goto(t, [frame[t] EXCEPT !.pc = "ret", !.cleanFor = "none",
                         !.result = UsageOf(kind, usage_window)])
       ELSE Goto(t, [frame[t] EXCEPT !.pc = "wait_check", !.cleanFor = "none",
                         !.cutoff = 0,
                         !.current_usage = UsageOf(kind, usage_window)])
    /\ UNCHANGED <<kind, now, usage_window, history, todo,
                   wikipedia_matches, matched, scripts>>
    /\ Unlock

\* ---------------------------------------------------------- wait_if_needed
\* the events of w that are younger than the window at instant `clock`, and
\* the amount they add up to (a user event counts 1)
Live(w, clock) == SelectSeq(w, LAMBDA e : clock - e.ts < Window(kind))

LiveUsage(w, clock) == SumCounts(Live(w, clock))

\* start_wait = time.time(); wait_time = 0; then the loop's first statement,
\* the call of get_current_usage
EnterWait(t, p) ==
    /\ frame[t].pc = "idle"
    /\ Goto(t, [IdleFrame EXCEPT !.pc = "clean_now", !.op = "wait_if_needed",
                    !.planned = p, !.cleanFor = "get_current_usage",
                    !.start_wait = now,
                    !.entry_fits =
                        (LiveUsage(usage_window, now) + p <= Capacity)])
    /\ UNCHANGED <<kind, now, usage_window, history, lock,
                   wikipedia_matches, matched, scripts>>

\* a direct call of wait_if_needed(p)
CallWaitIfNeeded(t, p) ==
    /\ EnterWait(t, p)
    /\ UNCHANGED todo

\* the frame of a wait_if_needed that returns wait_time
Returned(f) ==
    [f EXCEPT !.pc = "ret", !.result = f.wait_time, !.current_usage = 0,
              !.start_wait = 0, !.wait_time = 0]

\* if planned_token_count <= remaining_tokens: return wait_time
WaitAdmit(t) ==
    /\ frame[t].pc = "wait_check"
    /\ Admits(kind, frame[t].planned, frame[t].current_usage)
    /\ Goto(t, Returned(frame[t]))
    /\ UNCHANGED <<kind, now, usage_window, history, todo, lock,
                   wikipedia_matches, matched, scripts>>

\* the check failed; with self.lock: if not self.usage_window: break -- the
\* loop is left for the final `return wait_time`
ScanBreak(t) ==
    /\ frame[t].pc = "wait_check"
    /\ ~Admits(kind, frame[t].planned, frame[t].current_usage)
    /\ usage_window = <<>>
    /\ Goto(t, [frame[t] EXCEPT !.pc = "break"])
    /\ UNCHANGED <<kind, now, usage_window, history, todo,
                   wikipedia_matches, matched, scripts>>
    /\ Unlock

\* return wait_time, after the loop
BreakReturn(t) ==
    /\ frame[t].pc = "break"
    /\ Goto(t, Returned(frame[t]))
    /\ UNCHANGED <<kind, now, usage_window, history, todo, lock,
                   wikipedia_matches, matched, scripts>>

\* the check failed; with self.lock: the scan for wait_until on a non-empty
\* window
ScanWaitUntil(t) ==
    /\ frame[t].pc = "wait_check"
    /\ ~Admits(kind, frame[t].planned, frame[t].current_usage)
    /\ usage_window # <<>>
    /\ Goto(t, [frame[t] EXCEPT !.pc = "wait_decide", !.current_usage = 0,
                    !.wait_until = WaitUntilOf(kind, usage_window,
                                      frame[t].planned, frame[t].current_usage)])
    /\ UNCHANGED <<kind, now, usage_window, history, todo,
                   wikipedia_matches, matched, scripts>>
    /\ Unlock

\* mutant: the sleep towards wait_until is not capped
SliceLength_Uncapped(k, until, clock) == until - clock

\* the length of one sleep towards wait_until: min(sleep_time, 5)
SliceLength(k, until, clock) == Min(until - clock, SleepCap(k))

\* wait_until > now: time.sleep(min(sleep_time, 5))
SleepSlice(t) ==
    /\ frame[t].pc = "wait_decide"
    /\ frame[t].wait_until # None
    /\ frame[t].wait_until > now
    /\ Goto(t, [frame[t] EXCEPT !.pc = "sleeping", !.wait_until = None,
                    !.wake_at = now + SliceLength(kind, frame[t].wait_until, now)])
    /\ UNCHANGED <<kind, now, usage_window, history, todo, lock,
                   wikipedia_matches, matched, scripts>>

\* wait_until <= now: self._clean_old_usage(), then back to the loop's top
Recheck(t) ==
    /\ frame[t].pc = "wait_decide"
    /\ frame[t].wait_until # None
    /\ frame[t].wait_until <= now
    /\ Goto(t, [frame[t] EXCEPT !.pc = "clean_now", !.wait_until = None,
                    !.cleanFor = "wait_if_needed"])
    /\ UNCHANGED <<kind, now, usage_window, history, todo, lock,
                   wikipedia_matches, matched, scripts>>

\* wait_until is None: time.sleep(1)
SleepFallback(t) ==
    /\ frame[t].pc = "wait_decide"
    /\ frame[t].wait_until = None
    /\ Goto(t, [frame[t] EXCEPT !.pc = "sleeping",
                    !.wake_at = now + FallbackSleep])
    /\ UNCHANGED <<kind, now, usage_window, history, todo, lock,
                   wikipedia_matches, matched, scripts>>

\* time.sleep returns; wait_time = time.time() - start_wait; back to the
\* loop's top, the call of get_current_usage
Wake(t) ==
    /\ frame[t].pc = "sleeping"
    /\ now >= frame[t].wake_at
    /\ Goto(t, [frame[t] EXCEPT !.pc = "clean_now", !.wake_at = 0,
                    !.cleanFor = "get_current_usage",
                    !.wait_time = now - frame[t].start_wait])
    /\ UNCHANGED <<kind, now, usage_window, history, todo, lock,
                   wikipedia_matches, matched, scripts>>

\* a direct call has returned to its caller
Return(t) ==
    /\ frame[t].pc = "ret"
    /\ Goto(t, IdleFrame)
    /\ UNCHANGED <<kind, now, usage_window, history, todo, lock,
                   wikipedia_matches, matched, scripts>>

\* ------------------------------------------------------------ the workers
\* process_user / verify_search_result take the next item and enter the gate
WorkerBegin(t, p) ==
    /\ todo > 0
    /\ todo' = todo - 1
    /\ EnterWait(t, p)

\* the gate has returned: add_user() at once; add_tokens(token_count) after
\* anthropic_client.messages.create has returned
WorkerRecord(t) ==
    /\ frame[t].pc = "ret"
    /\ frame[t].op = "wait_if_needed"
    /\ AddBody(t, frame[t].planned)
    /\ UNCHANGED todo

\* anthropic_client.messages.create raises: the except clause returns False
\* and add_tokens is never reached
WorkerRaise(t) ==
    /\ kind = "token"
    /\ frame[t].pc = "ret"
    /\ frame[t].op = "wait_if_needed"
    /\ Goto(t, IdleFrame)
    /\ UNCHANGED <<kind, now, usage_window, history, todo, lock,
                   wikipedia_matches, matched, scripts>>

\* the steps a thread takes inside get_current_usage and wait_if_needed
LimiterStep(t) ==
    \/ CleanNow(t)
    \/ CleanBody(t)
    \/ SumBody(t)
    \/ WaitAdmit(t)
    \/ ScanBreak(t)
    \/ BreakReturn(t)
    \/ ScanWaitUntil(t)
    \/ SleepSlice(t)
    \/ Recheck(t)
    \/ SleepFallback(t)
    \/ Wake(t)

\* the amounts a worker plans: what fits the limiter at all
Fitting == {p \in Amounts : p <= Capacity}

\* ------------------------------- Spec: any thread calls any method any time
Init == InitWith(MaxEvents)

Tick == TickTo(MaxTime)

Next ==
    \/ Tick
    \/ \E t \in Threads :
        \/ CallAdd(t, 1)
        \/ CallGetCurrentUsage(t)
        \/ \E p \in Amounts : CallWaitIfNeeded(t, p)
        \/ LimiterStep(t)
        \/ Return(t)

Spec == Init /\ [][Next]_vars

\* ------------------------------------ SeqSpec: one caller, any method, any amount
InitSeq == InitWith(SeqMaxEvents)

SeqTick == TickTo(SeqMaxTime)

NextSeq ==
    \/ SeqTick
    \/ \E n \in Recorded : CallAdd(1, n)
    \/ CallGetCurrentUsage(1)
    \/ \E p \in Amounts : CallWaitIfNeeded(1, p)
    \/ LimiterStep(1)
    \/ Return(1)

SeqSpec == InitSeq /\ [][NextSeq]_vars

\* ------------------- WorkerSpec: a pool of workers, each gate-then-record
InitWorker == InitWith(MaxUsers)

NextWorker ==
    \/ Tick
    \/ \E t \in Threads :
        \/ \E p \in Fitting : WorkerBegin(t, p)
        \/ LimiterStep(t)
        \/ WorkerRecord(t)
        \/ WorkerRaise(t)

WorkerSpec == InitWorker /\ [][NextWorker]_vars

\* ------ SeqWorkerSpec: process_users, one thread working through the list
\* the loop of process_users: get_current_usage for the log line, then
\* process_user -- the gate, then the record; thread 1 is the only thread, and
\* the amount estimated for a prompt may be any, also more than the capacity
NextSeqWorker ==
    \/ SeqTick
    \/ CallGetCurrentUsage(1)
    \/ frame[1].op = "get_current_usage" /\ Return(1)
    \/ \E p \in Amounts : WorkerBegin(1, p)
    \/ LimiterStep(1)
    \/ WorkerRecord(1)
    \/ WorkerRaise(1)

SeqWorkerSpec == InitWorker /\ [][NextSeqWorker]_vars

\* -------- LockSpec: any thread, any method, the lock taken in a step of its own
\* thread t stands before a `with self.lock:` block: that of add_tokens /
\* add_user, of _clean_old_usage, of get_current_usage, or the one
\* wait_if_needed enters after a failed admission check
AtLock(t) ==
    \/ frame[t].pc = "idle" /\ todo > 0
    \/ frame[t].pc \in {"clean_lock", "sum_lock"}
    \/ /\ frame[t].pc = "wait_check"
       /\ ~Admits(kind, frame[t].planned, frame[t].current_usage)

\* threading.Lock.acquire: blocks while another thread, or the thread itself,
\* holds the lock
Acquire(t) ==
    /\ AtLock(t)
    /\ lock = 0
    /\ lock' = t
    /\ UNCHANGED <<kind, now, usage_window, history, todo, frame,
                   wikipedia_matches, matched, scripts>>

\* the body of the block the holder has entered, up to the release
Critical(t) ==
    /\ lock = t
    /\ \/ CallAdd(t, 1)
       \/ CleanBody(t)
       \/ SumBody(t)
       \/ ScanBreak(t)
       \/ ScanWaitUntil(t)

\* the statements outside the blocks
Outside(t) ==
    /\ lock # t
    /\ \/ CallGetCurrentUsage(t)
       \/ \E p \in Amounts : CallWaitIfNeeded(t, p)
       \/ CleanNow(t)
       \/ WaitAdmit(t)
       \/ BreakReturn(t)
       \/ SleepSlice(t)
       \/ Recheck(t)
       \/ SleepFallback(t)
       \/ Wake(t)
       \/ Return(t)

NextLock ==
    \/ Tick
    \/ \E t \in Threads :
        \/ Acquire(t)
        \/ Critical(t)
        \/ Outside(t)

LockSpec == Init /\ [][NextLock]_vars

\* ------- MatchSpec: the pool of process_user workers and the match counter
\* the gate has returned and the external call too: add_tokens(token_count)
\* (add_user() for the user limiter); the verdict on the page is still to come
VerifyRecord(t) ==
    /\ frame[t].pc = "ret"
    /\ frame[t].op = "wait_if_needed"
    /\ AppendEvent(frame[t].planned)
    /\ Goto(t, [IdleFrame EXCEPT !.pc = "verified"])
    /\ UNCHANGED todo

\* verify_search_result returns result_matches = m to process_user: on a
\* match the worker goes on to `self.wikipedia_matches += 1`
VerifyResult(t, m) ==
    /\ frame[t].pc = "verified"
    /\ matched' = (IF m THEN matched + 1 ELSE matched)
    /\ Goto(t, IF m THEN [IdleFrame EXCEPT !.pc = "inc_load"] ELSE IdleFrame)
    /\ UNCHANGED <<kind, now, usage_window, history, todo, lock,
                   wikipedia_matches, scripts>>

\* self.wikipedia_matches += 1, first half: the attribute is read.  No lock
\* is held; the interpreter may switch threads before the write
IncLoad(t) ==
    /\ frame[t].pc = "inc_load"
    /\ Goto(t, [frame[t] EXCEPT !.pc = "inc_store",
                                !.loaded = wikipedia_matches])
    /\ UNCHANGED <<kind, now, usage_window, history, todo, lock,
                   wikipedia_matches, matched, scripts>>

\* self.wikipedia_matches += 1, second half: the sum is written back; the
\* worker then builds its result and returns
IncStore(t) ==
    /\ frame[t].pc = "inc_store"
    /\ wikipedia_matches' = frame[t].loaded + 1
    /\ Goto(t, IdleFrame)
    /\ UNCHANGED <<kind, now, usage_window, history, todo, lock, matched,
                   scripts>>

InitMatch == InitWith(MatchUsers)

NextMatch ==
    \/ Tick
    \/ \E t \in Threads :
        \/ \E p \in Amounts : WorkerBegin(t, p)
        \/ LimiterStep(t)
        \/ VerifyRecord(t)
        \/ WorkerRaise(t)
        \/ \E m \in BOOLEAN : VerifyResult(t, m)
        \/ IncLoad(t)
        \/ IncStore(t)

MatchSpec == InitMatch /\ [][NextMatch]_vars

\* ---- LiveSpec: the pool under fair scheduling, with a clock that advances
\* Each thread keeps taking steps, and the clock keeps advancing.  Up to
\* MaxTime the clock may overtake any thread; from then on it advances only
\* while every thread is asleep or out of work, so that the clock's last
\* instant does not cut a wait short.
Quiet ==
    \A t \in Threads :
        \/ frame[t].pc = "idle" /\ todo = 0
        \/ frame[t].pc = "sleeping" /\ frame[t].wake_at > now

LiveTick ==
    /\ now < MaxTime \/ Quiet
    /\ TickTo(LiveMaxTime)

WorkerStep(t) ==
    \/ \E p \in Fitting : WorkerBegin(t, p)
    \/ LimiterStep(t)
    \/ WorkerRecord(t)
    \/ WorkerRaise(t)

NextLive ==
    \/ LiveTick
    \/ \E t \in Threads : WorkerStep(t)

LiveSpec ==
    /\ InitWorker
    /\ [][NextLive]_vars
    /\ WF_vars(LiveTick)
    /\ \A t \in Threads : WF_vars(WorkerStep(t))

\* ------------------------------------- the two limiters side by side
\* One caller drives a TokenRateLimiter (every amount 1) and a UserRateLimiter
\* of the same capacity and window length with the same operations at the same
\* clock values; a sleep lasts exactly as long as asked for.
Kinds == {"token", "user"}

\* the variables of the limiter and its workers
limiter ==
    <<kind, now, usage_window, history, todo, frame, lock, wikipedia_matches,
      matched>>

\* the limiter and its workers are not running
LimiterOff ==
    /\ kind = "token"
    /\ now = 0
    /\ usage_window = <<>>
    /\ history = <<>>
    /\ todo = 0
    /\ frame = [t \in Threads |-> IdleFrame]
    /\ lock = 0
    /\ wikipedia_matches = 0
    /\ matched = 0

\* what an operation reports: the usage read last, the wait_time returned,
\* the clock value at which it returned, and whether it returned at all
Report(usage, wait_time, clock, returned) ==
    [usage |-> usage, wait_time |-> wait_time, at |-> clock,
     returned |-> returned]

\* wait_if_needed(p) / wait_if_needed() of a limiter of kind k, run from the
\* window w at the instant clock by a single caller: the window it leaves and
\* its report. One unfolding is one pass of `while True:`.
RECURSIVE WaitLoop(_, _, _, _, _, _, _)
WaitLoop(k, p, w, clock, start_wait, wait_time, passes) ==
    LET cleaned == Cleaned(w, Cutoff(k, clock))
        current_usage == UsageOf(k, cleaned)
    IN  IF passes = 0
        THEN [window |-> cleaned,
              report |-> Report(current_usage, wait_time, clock, FALSE)]
        ELSE IF Admits(k, p, current_usage) \/ cleaned = <<>>
        THEN [window |-> cleaned,
              report |-> Report(current_usage, wait_time, clock, TRUE)]
        ELSE LET wait_until == WaitUntilOf(k, cleaned, p, current_usage)
             IN  IF wait_until = None
                 THEN WaitLoop(k, p, cleaned, clock + FallbackSleep,
                               start_wait,
                               clock + FallbackSleep - start_wait, passes - 1)
                 ELSE IF wait_until > clock
                 THEN LET woken ==
                              clock + SliceLength(k, wait_until, clock)
                      IN  WaitLoop(k, p, cleaned, woken, start_wait,
                                   woken - start_wait, passes - 1)
                 ELSE WaitLoop(k, p, cleaned, clock, start_wait, wait_time,
                               passes - 1)

InitPair ==
    /\ LimiterOff
    /\ pair = [pc |-> "on", clock |-> 0, op |-> "none", crowd |-> 0,
               window |-> [k \in Kinds |-> <<>>],
               report |-> [k \in Kinds |-> Report(0, 0, 0, TRUE)]]
    /\ chain = Off
    /\ brave = Off
    /\ download = Off
    /\ gather = Off
    /\ paging = Off

PairStep(next) ==
    /\ pair.pc = "on"
    /\ pair' = next
    /\ UNCHANGED <<limiter, chain, brave, download, gather, paging>>

\* the clock both limiters read advances
PairTick ==
    /\ pair.clock < SeqMaxTime
    /\ PairStep([pair EXCEPT !.clock = @ + 1, !.op = "none"])

\* add_tokens(1) on the one, add_user() on the other
PairRecord ==
    /\ \A k \in Kinds : Len(pair.window[k]) < SeqMaxEvents
    /\ PairStep([pair EXCEPT
           !.op = "record",
           !.window = [k \in Kinds |-> Append(@[k], NewEvent(pair.clock, 1))]])

\* get_current_usage() on both
PairQuery ==
    LET cleaned == [k \in Kinds |->
                        Cleaned(pair.window[k], Cutoff(k, pair.clock))]
    IN  PairStep([pair EXCEPT
            !.op = "query",
            !.window = cleaned,
            !.report = [k \in Kinds |->
                Report(UsageOf(k, cleaned[k]), 0, pair.clock, TRUE)]])

\* wait_if_needed(1) on the one, wait_if_needed() on the other, both started
\* at the same instant; the caller goes on when the token limiter returns
PairWait ==
    LET after == [k \in Kinds |->
                      WaitLoop(k, 1, pair.window[k], pair.clock, pair.clock,
                               0, MaxPasses)]
    IN  /\ pair.clock <= SeqMaxTime
        /\ PairStep([pair EXCEPT
               !.op = "wait",
               !.crowd = Len(pair.window["token"]),
               !.clock = after["token"].report.at,
               !.window = [k \in Kinds |-> after[k].window],
               !.report = [k \in Kinds |-> after[k].report]])

NextPair == PairTick \/ PairRecord \/ PairQuery \/ PairWait

PairSpec == InitPair /\ [][NextPair]_vars

\* --------------------------------------- process_users of the chain
\* One thread runs process_users(users); a user is what the skip test reads:
\* has it a name, has it a description. A sleep lasts exactly as long as asked
\* for, so each gate is WaitLoop. Of the call of process_user under way the
\* model keeps what it has called so far (trace) and the two windows as they
\* were when the user gate returned (users_at_call, tokens_at_call).
Users == [name : BOOLEAN, description : BOOLEAN]

RECURSIVE SeqsUpTo(_, _)
SeqsUpTo(S, n) ==
    IF n = 0 THEN {<<>>}
    ELSE LET shorter == SeqsUpTo(S, n - 1)
         IN  shorter \cup {Append(q, x) : q \in {r \in shorter : Len(r) = n - 1},
                                          x \in S}

\* mutant: no user is skipped
SkipsUser_Never(user) == FALSE

\* `if not user.name or not user.description:`
SkipsUser(user) == ~user.name \/ ~user.description

\* the entry for the user at position i: {handle: {"matched_results": []}} when
\* skipped, user.to_dict() with "metadata" otherwise
Entry(i, full) == [user |-> i, full |-> full]

InitChain ==
    /\ LimiterOff
    /\ pair = Off
    /\ \E users \in SeqsUpTo(Users, MaxUsers) :
           chain = [pc |-> IF users = <<>> THEN "save" ELSE "loop",
                    users |-> users, i |-> 1, clock |-> 0,
                    user_window |-> <<>>, token_window |-> <<>>,
                    results |-> <<>>, returned |-> Entry(0, FALSE),
                    pages |-> 0, wikipedia_matches |-> 0,
                    trace |-> <<>>, tokens_at_call |-> <<>>,
                    users_at_call |-> <<>>,
                    saved |-> <<>>]
    /\ brave = Off
    /\ download = Off
    /\ gather = Off
    /\ paging = Off

ChainStep(at, next) ==
    /\ chain.pc = at
    /\ chain' = next
    /\ UNCHANGED <<limiter, pair, brave, download, gather, paging>>

\* the clock advances while process_users runs (also its time.sleep(0.5))
ChainTick ==
    /\ chain.pc \notin {"off", "done"}
    /\ chain.clock < MaxTime
    /\ ChainStep(chain.pc, [chain EXCEPT !.clock = @ + 1])

\* process_users: current_usage = self.user_limiter.get_current_usage()
ChainQuery ==
    ChainStep("loop", [chain EXCEPT
        !.pc = "call",
        !.user_window = Cleaned(@, Cutoff("user", chain.clock))])

\* process_user: self.user_limiter.wait_if_needed()
ChainGate ==
    LET after == WaitLoop("user", 1, chain.user_window, chain.clock,
                          chain.clock, 0, MaxPasses)
    IN  ChainStep("call", [chain EXCEPT
            !.pc = "add_user",
            !.clock = after.report.at,
            !.user_window = after.window,
            !.trace = <<"wait_if_needed">>,
            !.tokens_at_call = chain.token_window,
            !.users_at_call = after.window])

\* process_user: self.user_limiter.add_user()
ChainAddUser ==
    ChainStep("add_user", [chain EXCEPT
        !.pc = "check",
        !.user_window = Append(@, NewEvent(chain.clock, 1)),
        !.trace = Append(@, "add_user")])

\* process_user: the user has no name or no description and is skipped
ChainSkip ==
    /\ chain.pc = "check"
    /\ SkipsUser(chain.users[chain.i])
    /\ ChainStep("check", [chain EXCEPT
           !.pc = "append",
           !.returned = Entry(chain.i, FALSE)])

\* process_user: get_wikipedia_search_results_api returns some pages
ChainSearch ==
    /\ chain.pc = "check"
    /\ ~SkipsUser(chain.users[chain.i])
    /\ \E n \in 0..MaxPages :
           ChainStep("check", [chain EXCEPT
               !.pc = "verify",
               !.pages = n,
               !.trace = Append(@, "wikipedia")])

\* process_user: verify_search_result for the next page -- the token gate,
\* the call of the LLM, add_tokens unless the call raised; `break` on a match
ChainVerify ==
    /\ chain.pc = "verify"
    /\ chain.pages > 0
    /\ \E p \in 1..MaxAmount, answer \in {"raise", "NO", "YES"} :
           LET after == WaitLoop("token", p, chain.token_window, chain.clock,
                                 chain.clock, 0, MaxPasses)
           IN  ChainStep("verify", [chain EXCEPT
                   !.clock = after.report.at,
                   !.token_window =
                       IF answer = "raise" THEN after.window
                       ELSE Append(after.window, NewEvent(after.report.at, p)),
                   !.trace =
                       IF answer = "raise" THEN Append(@, "llm")
                       ELSE @ \o <<"llm", "add_tokens">>,
                   !.wikipedia_matches = IF answer = "YES" THEN @ + 1 ELSE @,
                   !.pages = IF answer = "YES" THEN 0 ELSE @ - 1])

\* process_user: self.results.append(result); return result
ChainResult ==
    /\ chain.pc = "verify"
    /\ chain.pages = 0
    /\ ChainStep("verify", [chain EXCEPT
           !.pc = "append",
           !.results = Append(@, Entry(chain.i, TRUE)),
           !.returned = Entry(chain.i, TRUE)])

\* process_users: self.results.append(user_metadata), then the next user
ChainAppend ==
    ChainStep("append", [chain EXCEPT
        !.pc = IF chain.i < Len(chain.users) THEN "loop" ELSE "save",
        !.results = Append(@, chain.returned),
        !.i = @ + 1])

\* save_results: write_json_lines(self.output_file, self.results)
ChainSave ==
    ChainStep("save", [chain EXCEPT !.pc = "done", !.saved = chain.results])

NextChain ==
    \/ ChainTick
    \/ ChainQuery
    \/ ChainGate
    \/ ChainAddUser
    \/ ChainSkip
    \/ ChainSearch
    \/ ChainVerify
    \/ ChainResult
    \/ ChainAppend
    \/ ChainSave

ChainSpec == InitChain /\ [][NextChain]_vars

\* ------------------------------------------------ brave_search.search
\* One call search(query, max_retries, retry_delay). A request ends in one of
\*   "ok"       a 2xx response whose body parses
\*   "error"    requests.get or raise_for_status raises a RequestException
\*   "badjson"  a 2xx response whose body does not parse: response.json() raises
\* What response.json() raises depends on the installed requests: from 2.27 on
\* a requests.exceptions.JSONDecodeError, which is a RequestException and is
\* caught by the first clause; before, json.JSONDecodeError, caught by the
\* second clause, or simplejson's error when simplejson is installed, which
\* neither clause catches. `catches` names the clause.
Clauses == {"RequestException", "JSONDecodeError", "none"}

\* the except clause that handles the outcome of a request
Handler(outcome, catches) ==
    IF outcome = "error" THEN "RequestException"
    ELSE IF outcome = "badjson" THEN catches
    ELSE "ok"

\* `if attempt < max_retries - 1:`
MayRetry(attempt, max_retries) == attempt < max_retries - 1

InitBrave ==
    /\ LimiterOff
    /\ pair = Off
    /\ chain = Off
    /\ \E m \in 0..MaxRetries, d \in 1..MaxDelay, c \in Clauses :
           brave = [pc |-> "loop", max_retries |-> m, retry_delay |-> d,
                    catches |-> c, attempt |-> 0, log |-> <<>>, slept |-> 0,
                    result |-> "pending"]
    /\ download = Off
    /\ gather = Off
    /\ paging = Off

BraveStep(next) ==
    /\ brave.pc = "loop"
    /\ brave' = next
    /\ UNCHANGED <<limiter, pair, chain, download, gather, paging>>

\* one pass of `for attempt in range(max_retries):` -- the request, and the
\* return or the except clause that follows it
BraveAttempt(outcome) ==
    LET handler == Handler(outcome, brave.catches)
        logged == Append(brave.log, handler)
    IN  /\ brave.pc = "loop"
        /\ brave.attempt < brave.max_retries
        /\ BraveStep(
             IF handler = "ok"
             THEN [brave EXCEPT !.pc = "done", !.log = logged,
                                !.result = "response"]
             ELSE IF handler = "JSONDecodeError"
             THEN [brave EXCEPT !.pc = "done", !.log = logged,
                                !.result = "empty"]
             ELSE IF handler = "none"
             THEN [brave EXCEPT !.pc = "done", !.log = logged,
                                !.result = "raised"]
             ELSE IF MayRetry(brave.attempt, brave.max_retries)
             THEN [brave EXCEPT !.log = Append(logged, "sleep"),
                                !.slept = @ + brave.retry_delay,
                                !.attempt = @ + 1]
             ELSE [brave EXCEPT !.pc = "done", !.log = logged,
                                !.result = "empty"])

\* the loop ends without a return: the function returns None
BraveFallThrough ==
    /\ brave.pc = "loop"
    /\ brave.attempt >= brave.max_retries
    /\ BraveStep([brave EXCEPT !.pc = "done", !.result = "None"])

NextBrave ==
    \/ \E outcome \in {"ok", "error", "badjson"} : BraveAttempt(outcome)
    \/ BraveFallThrough

BraveSpec == InitBrave /\ [][NextBrave]_vars

\* ------------------------------------------- gsa.download_user_profiles
\* The accounts are 1..n; process_single_profile returns the profile of an
\* account (here: its number) or None, and imap_unordered yields the results in
\* any order. The output file is absent or holds a list; a profile numbered 0
\* is one the file held before the call.
Accounts(n) == 1..n

AbsentFile == [exists |-> FALSE, data |-> <<>>]

FileOf(data) == [exists |-> TRUE, data |-> data]

\* save_profiles_batch(profiles, output_file, mode)
save_profiles_batch(profiles, file, mode) ==
    IF mode = "a" /\ file.exists
    THEN FileOf(file.data \o profiles)
    ELSE FileOf(profiles)

\* `mode = "w" if i < batch_size else "a"`, i the index enumerate gives
BatchMode(i, batch_size) == IF i < batch_size THEN "w" ELSE "a"

\* `"a" if len(profiles) > batch_size else "w"`
FinalMode(profiles, batch_size) ==
    IF Len(profiles) > batch_size THEN "a" ELSE "w"

InitDownload ==
    /\ LimiterOff
    /\ pair = Off
    /\ chain = Off
    /\ brave = Off
    /\ \E n \in 0..MaxAccounts, b \in 1..MaxBatch,
          before \in {AbsentFile, FileOf(<<>>), FileOf(<<0>>)} :
           \E fails \in SUBSET Accounts(n) :
               download = [pc |-> "loop", batch_size |-> b, fails |-> fails,
                           pending |-> Accounts(n), i |-> 0,
                           profiles |-> <<>>, current_batch |-> <<>>,
                           file |-> before, modes |-> <<>>]
    /\ gather = Off
    /\ paging = Off

DownloadStep(at, next) ==
    /\ download.pc = at
    /\ download' = next
    /\ UNCHANGED <<limiter, pair, chain, brave, gather, paging>>

\* one pass of the loop over imap_unordered: the result of account a arrives
DownloadNext(a) ==
    LET batch == Append(download.current_batch, a)
        mode == BatchMode(download.i, download.batch_size)
        rest == [download EXCEPT !.pending = @ \ {a}, !.i = @ + 1]
    IN  /\ download.pc = "loop"
        /\ a \in download.pending
        /\ DownloadStep("loop",
             IF a \in download.fails
             THEN rest
             ELSE IF Len(batch) >= download.batch_size
             THEN [rest EXCEPT
                      !.profiles = Append(@, a),
                      !.current_batch = <<>>,
                      !.file = save_profiles_batch(batch, @, mode),
                      !.modes = Append(@, mode)]
             ELSE [rest EXCEPT
                      !.profiles = Append(@, a),
                      !.current_batch = batch])

\* after the loop: the remaining profiles are saved, and the call returns
DownloadFinal ==
    LET mode == FinalMode(download.profiles, download.batch_size)
    IN  /\ download.pc = "loop"
        /\ download.pending = {}
        /\ DownloadStep("loop",
             IF download.current_batch # <<>>
             THEN [download EXCEPT
                      !.pc = "done",
                      !.current_batch = <<>>,
                      !.file = save_profiles_batch(download.current_batch,
                                                   @, mode),
                      !.modes = Append(@, mode)]
             ELSE [download EXCEPT !.pc = "done"])

NextDownload ==
    \/ \E a \in 1..MaxAccounts : DownloadNext(a)
    \/ DownloadFinal

DownloadSpec == InitDownload /\ [][NextDownload]_vars

\* ----------------------------------------- gsa.gather_unstructured_data
\* A profile is what process_batch reads of it: is it blank (no displayName and
\* no description). An entry of a result list is the profile (its position in
\* the input) with the value stored under "metadata". The executor starts the
\* submitted batches in order, as many at a time as it has workers; the
\* batches under way proceed in any order; overtaken records that a batch has
\* finished before one submitted earlier.
Profiles == [blank : BOOLEAN]

\* what the LLM call and the parsing of its reply can come to
Replies == {"raise", "badjson", "parsed"}

\* the value process_batch stores under "metadata"
MetadataOf(profile, reply) ==
    IF profile.blank THEN "None"
    ELSE IF reply = "parsed" THEN "parsed"
    ELSE "None"

\* len(profile_batches)
BatchCount(n, batch_size) == (n + batch_size - 1) \div batch_size

\* the positions of profiles[i : i + batch_size] for the b-th batch
BatchFirst(b, batch_size) == (b - 1) * batch_size + 1

BatchLast(b, batch_size, n) == Min(b * batch_size, n)

\* mutant: the results are collected as the batches complete, the batch
\* submitted last first
NextFuture_AsCompleted(finished, collected) ==
    LET ready == finished \ {collected[j] : j \in 1..Len(collected)}
    IN  IF ready = {} THEN 0
        ELSE CHOOSE b \in ready : \A c \in ready : c <= b

\* `for future in futures: future.result()`: the batch whose result the
\* collector takes next, 0 while that batch has not finished
NextFuture(finished, collected) ==
    IF Len(collected) + 1 \in finished THEN Len(collected) + 1 ELSE 0

InitGather ==
    /\ LimiterOff
    /\ pair = Off
    /\ chain = Off
    /\ brave = Off
    /\ download = Off
    /\ \E profiles \in SeqsUpTo(Profiles, MaxProfiles),
          b \in 1..MaxBatch, w \in 1..MaxWorkers :
           gather = [pc |-> "run", profiles |-> profiles, batch_size |-> b,
                     num_workers |-> w, started |-> 0,
                     results |-> [j \in 1..BatchCount(Len(profiles), b)
                                      |-> <<>>],
                     collected |-> <<>>, updated_profiles |-> <<>>,
                     output |-> <<>>, overtaken |-> FALSE]
    /\ paging = Off

\* the batches process_batch has returned for
GatherFinished ==
    {b \in 1..gather.started :
         Len(gather.results[b])
             = BatchLast(b, gather.batch_size, Len(gather.profiles))
                   - BatchFirst(b, gather.batch_size) + 1}

GatherStep(next) ==
    /\ gather.pc = "run"
    /\ gather' = next
    /\ UNCHANGED <<limiter, pair, chain, brave, download, paging>>

\* a free worker takes the next submitted batch
GatherStart ==
    /\ gather.pc = "run"
    /\ gather.started < Len(gather.results)
    /\ gather.started - Cardinality(GatherFinished) < gather.num_workers
    /\ GatherStep([gather EXCEPT !.started = @ + 1])

\* process_batch: one pass of `for profile in batch:` in batch b
GatherProcess(b, reply) ==
    /\ gather.pc = "run"
    /\ b \in 1..gather.started
    /\ b \notin GatherFinished
    /\ LET i == BatchFirst(b, gather.batch_size) + Len(gather.results[b])
           last == BatchLast(b, gather.batch_size, Len(gather.profiles))
       IN  GatherStep([gather EXCEPT
               !.results[b] =
                   Append(@, [profile |-> i,
                              metadata |->
                                  MetadataOf(gather.profiles[i], reply)]),
               !.overtaken =
                   @ \/ (i = last /\ \E c \in 1..(b - 1) :
                                         c \notin GatherFinished)])

\* updated_profiles.extend(future.result())
GatherCollect ==
    /\ gather.pc = "run"
    /\ LET b == NextFuture(GatherFinished, gather.collected)
       IN  /\ b # 0
           /\ GatherStep([gather EXCEPT
                  !.collected = Append(@, b),
                  !.updated_profiles = @ \o gather.results[b]])

\* every future has been collected: the output file is written
GatherWrite ==
    /\ gather.pc = "run"
    /\ Len(gather.collected) = Len(gather.results)
    /\ GatherStep([gather EXCEPT !.pc = "done",
                                 !.output = gather.updated_profiles])

NextGather ==
    \/ GatherStart
    \/ \E b \in 1..MaxProfiles, reply \in Replies : GatherProcess(b, reply)
    \/ GatherCollect
    \/ GatherWrite

GatherSpec == InitGather /\ [][NextGather]_vars

\* ------------------------------------------------- client.get_follows
\* One call get_follows(handle). What a page request comes to: it raises, or it
\* returns a page with some follows and a cursor -- None, the empty string, or
\* a string that names the next page. A follow is <<page, position>>.
Cursors == {"None", "", "next"}

Pages ==
    [raises : {TRUE}, follows : {0}, cursor : {"None"}]
        \cup [raises : {FALSE}, follows : 0..MaxFollows, cursor : Cursors]

\* response.follows of the page served as the j-th
FollowsOf(j, page) == [i \in 1..page.follows |-> <<j, i>>]

\* mutant: only None ends the paging, the empty string does not
NoCursor_OnlyNone(cursor) == cursor = "None"

\* `if not cursor:`
NoCursor(cursor) == cursor \in {"None", ""}

InitPaging ==
    /\ LimiterOff
    /\ pair = Off
    /\ chain = Off
    /\ brave = Off
    /\ download = Off
    /\ gather = Off
    /\ paging = [pc |-> "loop", cursor |-> "None", all_follows |-> <<>>,
                 served |-> <<>>, returned |-> <<>>]

PagingStep(next) ==
    /\ paging.pc = "loop"
    /\ paging' = next
    /\ UNCHANGED <<limiter, pair, chain, brave, download, gather>>

\* one pass of `while True:` -- the request, then extend, the cursor test and
\* the sleep, or the except clause; `break` leads to `return all_follows`
PagingRequest(page) ==
    LET j == Len(paging.served) + 1
        all_follows == paging.all_follows \o FollowsOf(j, page)
        served == Append(paging.served, page)
    IN  /\ paging.pc = "loop"
        /\ Len(paging.served) < MaxRequests
        /\ PagingStep(
             IF page.raises
             THEN [paging EXCEPT !.pc = "done", !.served = served,
                                 !.returned = paging.all_follows]
             ELSE IF NoCursor(page.cursor)
             THEN [paging EXCEPT !.pc = "done", !.served = served,
                                 !.cursor = page.cursor,
                                 !.all_follows = all_follows,
                                 !.returned = all_follows]
             ELSE [paging EXCEPT !.served = served,
                                 !.cursor = page.cursor,
                                 !.all_follows = all_follows])

NextPaging == \E page \in Pages : PagingRequest(page)

PagingSpec == InitPaging /\ [][NextPaging]_vars

\* =================================================================== claims
\* a thread's wait_if_needed returns in this step
ReturnsFromWait(t) ==
    /\ frame[t].op = "wait_if_needed"
    /\ frame[t].pc # "ret"
    /\ frame'[t].pc = "ret"

\* the amount recorded with timestamps in the window that ends at instant tau
RecordedIn(tau) ==
    SumCounts(SelectSeq(history,
        LAMBDA e : e.ts <= tau /\ tau - e.ts < Window(kind)))

\* C1: with workers that pass the gate and then record, the amount recorded
\* inside any trailing window never exceeds the capacity.
C1_QuotaNeverExceeded ==
    \A tau \in 0..MaxTime : RecordedIn(tau) <= Capacity

\* C2: get_current_usage, whose clock read was t, returns the sum of the
\* amounts of the events recorded at t_i > t - window_duration: an event
\* exactly window_duration old is left out, and no event gives 0.
C2_UsageIsWindowSum ==
    (frame[1].pc = "ret" /\ frame[1].op = "get_current_usage") =>
        LET t == frame[1].cutoff + Window(kind)
        IN frame[1].result =
               SumCounts(SelectSeq(history, LAMBDA e : e.ts > t - Window(kind)))

\* C2 witness: a query has returned a positive usage that leaves out an event
\* exactly window_duration old at its clock read.
C2_Witness ==
    /\ frame[1].pc = "ret"
    /\ frame[1].op = "get_current_usage"
    /\ frame[1].result > 0
    /\ \E i \in 1..Len(history) : history[i].ts = frame[1].cutoff

\* C3: at the instant wait_if_needed(planned) returns, with planned <= capacity,
\* the unexpired events of the window plus planned do not exceed the capacity.
C3_AdmissionHoldsAtReturn ==
    [][\A t \in Threads :
          (ReturnsFromWait(t) /\ frame[t].planned <= Capacity) =>
              LiveUsage(usage_window', now') + frame[t].planned <= Capacity]_vars

\* C4: with planned <= capacity, under fair scheduling and an advancing
\* clock, every wait_if_needed of every worker of the pool returns.
C4_EveryWaitReturns ==
    \A t \in Threads :
        (frame[t].op = "wait_if_needed" /\ frame[t].pc # "ret")
            ~> (frame[t].pc = "ret")

\* C4 witness: a worker has returned from the gate after sleeping in it while
\* the other worker is still waiting in the gate.
C4_Witness ==
    \E t \in Threads, u \in Threads :
        /\ frame[t].pc = "ret"
        /\ frame[t].result > 0
        /\ frame[u].pc = "sleeping"

\* C5: a single caller whose planned amount fits when it calls
\* wait_if_needed gets 0 back, never sleeps, never leaves the loop by `break`,
\* and no step of the call changes which events of the window are unexpired.
C5_FitsReturnsAtOnce ==
    [][(frame[1].op = "wait_if_needed" /\ frame[1].entry_fits) =>
          /\ Live(usage_window', now') = Live(usage_window, now')
          /\ frame'[1].pc \notin {"wait_decide", "sleeping", "break"}
          /\ frame'[1].wait_time = 0
          /\ frame'[1].pc = "ret" => frame'[1].result = 0]_vars

\* C5 witness: the call has returned 0 with a window that holds an unexpired
\* event, after evicting an expired one.
C5_Witness ==
    /\ frame[1].op = "wait_if_needed"
    /\ frame[1].entry_fits
    /\ frame[1].pc = "ret"
    /\ frame[1].result = 0
    /\ Live(usage_window, now) # <<>>
    /\ Len(usage_window) < Len(history)

\* C6: wait_if_needed returns to its caller only from a passed admission
\* check, capacity - current_usage >= planned; an empty window found after
\* a failed check leads to a sleep and a recheck, never to a return.
C6_ReturnsOnlyWhenAdmitted ==
    [][\A t \in Threads :
          ReturnsFromWait(t) =>
              /\ frame[t].pc = "wait_check"
              /\ Capacity - frame[t].current_usage >= frame[t].planned]_vars

\* C7: a call of wait_if_needed with planned > capacity never returns.
C7_OverCapacityNeverReturns ==
    \A t \in Threads :
        ~(/\ frame[t].op = "wait_if_needed"
          /\ frame[t].planned > Capacity
          /\ frame[t].pc = "ret")

\* C8: between the eviction of a get_current_usage and its summation no
\* record or eviction of another thread takes effect: the window summed is the
\* window the call's own eviction left.
C8_EvictAndSumAtomic ==
    [][(\E t \in Threads : frame[t].pc = "sum_lock") =>
          usage_window' = usage_window]_vars

\* C9: threads recording one unit each, interleaved with queries and waits,
\* lose no event: a get_current_usage that sums while no recorded event is
\* window_duration old returns the number of events recorded so far.
C9_NoEventLost ==
    [][\A t \in Threads :
          (/\ frame[t].op = "get_current_usage"
           /\ frame[t].pc = "sum_lock"
           /\ frame'[t].pc = "ret"
           /\ \A i \in 1..Len(history) : now - history[i].ts < Window(kind))
          => frame'[t].result = Len(history)]_vars

\* C9 witness: both threads have recorded, and a query has returned 2 while
\* the other thread is inside a call that evicts.
C9_Witness ==
    \E t \in Threads, u \in Threads :
        /\ t # u
        /\ frame[t].pc = "ret"
        /\ frame[t].op = "get_current_usage"
        /\ frame[t].result = 2
        /\ Len(history) = 2
        /\ \E i \in 1..2 : history[i].ts < now
        /\ frame[u].pc = "sum_lock"

\* the events a step removes from the window
Removed(w, w2) ==
    {e \in {w[i] : i \in 1..Len(w)} :
        Len(SelectSeq(w, LAMBDA x : x = e)) > Len(SelectSeq(w2, LAMBDA x : x = e))}

\* C10 as claimed: an event is removed only once its age exceeds
\* window_duration.
C10_RemovedOnlyWhenOlder ==
    [][\A e \in Removed(usage_window, usage_window') :
          now - e.ts > Window(kind)]_vars

\* C10 as amended: an event is removed only once its age is at least
\* window_duration; no event younger than that is ever evicted, also when
\* several threads evict concurrently.
C10_RemovedOnlyWhenExpired ==
    [][\A e \in Removed(usage_window, usage_window') :
          now - e.ts >= Window(kind)]_vars

\* C10 witness: an event has been evicted, and two threads are about to
\* evict with cutoffs read at different instants.
C10_Witness ==
    /\ Len(usage_window) < Len(history)
    /\ usage_window # <<>>
    /\ frame[1].pc = "clean_lock"
    /\ frame[2].pc = "clean_lock"
    /\ frame[1].cutoff # frame[2].cutoff

\* the wait_if_needed of a single caller that the claims about blocking are
\* about: the planned amount fits the limiter but did not fit at entry
BlockedWait ==
    /\ frame[1].op = "wait_if_needed"
    /\ frame[1].planned <= Capacity
    /\ ~frame[1].entry_fits

\* the release instant has come at instant `clock`: without new records the
\* events younger than the window leave room for the planned amount
Released(clock) == LiveUsage(history, clock) + frame[1].planned <= Capacity

\* what C11 says of the instant of return, for a single caller: no return
\* before the release instant t0 + window_duration, and the first recheck
\* whose clock read is at or after that instant passes and leads to the return
ReturnsAtRelease ==
    /\ ReturnsFromWait(1) => Released(now)
    /\ (/\ frame[1].pc = "sum_lock"
        /\ Released(frame[1].cutoff + Window(kind))
        /\ frame'[1] # frame[1])
           => /\ frame'[1].pc = "wait_check"
              /\ Admits(kind, frame[1].planned, frame'[1].current_usage)
    /\ (/\ frame[1].pc = "wait_check"
        /\ Admits(kind, frame[1].planned, frame[1].current_usage)
        /\ frame'[1] # frame[1])
           => frame'[1].pc = "ret"

\* C11 as claimed: a single caller blocked by an event recorded at t0 returns
\* neither before t0 + window_duration nor later than the first recheck at or
\* after that instant, and the value returned is the time elapsed between
\* entering and returning.
C11_WaitEqualsElapsed ==
    [][BlockedWait =>
          /\ ReturnsAtRelease
          /\ ReturnsFromWait(1) =>
                 frame'[1].result = now' - frame[1].start_wait]_vars

\* C11 as amended: same instants of return; the value returned is the time
\* elapsed between entering and the end of the call's last sleep (what
\* wait_time was set to when that sleep returned), and never more than the time
\* elapsed between entering and returning.
C11_WaitIsTimeAsleep ==
    [][BlockedWait =>
          /\ ReturnsAtRelease
          /\ (frame[1].pc = "sleeping" /\ frame'[1].pc # "sleeping")
                 => frame'[1].wait_time = now - frame[1].start_wait
          /\ (frame[1].pc \notin {"sleeping", "idle", "ret"}
                  /\ frame'[1].pc # "ret")
                 => frame'[1].wait_time = frame[1].wait_time
          /\ ReturnsFromWait(1) =>
                 /\ frame'[1].result = frame[1].wait_time
                 /\ frame'[1].result <= now' - frame[1].start_wait]_vars

\* C11 witness: the scenario of the claim -- an event recorded at 0 fills the
\* window, wait_if_needed entered at 0 has returned at window_duration with a
\* wait of window_duration.
C11_Witness ==
    /\ BlockedWait
    /\ frame[1].pc = "ret"
    /\ Len(history) = 1
    /\ history[1].ts = 0
    /\ now = Window(kind)
    /\ frame[1].result = Window(kind)

\* C12: a worker's LLM call is made in the order estimate, gate, external
\* call, add_tokens(cost): an event is appended only by a thread whose gate has
\* returned, with the amount it planned, and every call that passed the gate
\* ends with that append -- also when the external call raises.
C12_GatedCallIsRecorded ==
    [][kind = "token" =>
          \A t \in Threads :
              /\ (history' # history /\ frame'[t] # frame[t]) =>
                     /\ frame[t].pc = "ret"
                     /\ frame[t].op = "wait_if_needed"
              /\ (/\ frame[t].pc = "ret"
                  /\ frame[t].op = "wait_if_needed"
                  /\ frame'[t] # frame[t]) =>
                     history' = Append(history, NewEvent(now, frame[t].planned))]_vars

\* C13: in a single-threaded run where every record of p follows a
\* wait_if_needed(p) with p <= capacity, the unexpired events -- those of the
\* window, and all those ever recorded -- never add up to more than the capacity.
C13_SequentialNeverExceeds ==
    (\A i \in 1..Len(history) : history[i].count <= Capacity) =>
        /\ LiveUsage(usage_window, now) <= Capacity
        /\ LiveUsage(history, now) <= Capacity

\* C13 witness: the whole list has been processed, a gate had to wait for an
\* eviction, and the unexpired events fill the capacity exactly.
C13_Witness ==
    /\ frame[1].pc = "idle"
    /\ todo = 0
    /\ Len(history) = MaxUsers
    /\ \A i \in 1..Len(history) : history[i].count <= Capacity
    /\ Len(usage_window) < Len(history)
    /\ LiveUsage(usage_window, now) = Capacity

\* thread t computes wait_until in this step
ComputesRelease(t) ==
    /\ kind = "token"
    /\ frame[t].pc = "wait_check"
    /\ frame'[t].pc = "wait_decide"

\* the sum of the amounts of the first i entries of w
Running(w, i) == SumCounts(SubSeq(w, 1, i))

\* R is the timestamp of the first entry of w at which the running sum reaches
\* deficit, plus window_duration
IsCrossing(R, w, deficit) ==
    \E i \in 1..Len(w) :
        /\ R = w[i].ts + Window(kind)
        /\ Running(w, i) >= deficit
        /\ Running(w, i - 1) < deficit

\* R is the earliest instant at which, with nothing recorded after w, the
\* entries younger than the window leave room for p
IsEarliestRelease(R, w, p) ==
    /\ LiveUsage(w, R) + p <= Capacity
    /\ \A r \in 0..(R - 1) : LiveUsage(w, r) + p > Capacity

\* what C14 says of the wait_until thread t computes for a planned amount
\* that fits the limiter
ReleaseIsCrossingAndEarliest(t) ==
    /\ frame'[t].wait_until # None
    /\ IsCrossing(frame'[t].wait_until, usage_window,
                  frame[t].planned - (Capacity - frame[t].current_usage))
    /\ IsEarliestRelease(frame'[t].wait_until, usage_window, frame[t].planned)

\* C14 as claimed: whenever TokenRateLimiter.wait_if_needed computes a release
\* instant, it is (timestamp of the first event at which the running sum
\* reaches the deficit) + window_duration, and it is the earliest instant at
\* which, absent new records, usage + planned <= capacity.  Stated for the
\* scans of a window that holds no more than the call summed, so that a record
\* made by another thread since the usage was read does not count against it.
C14_ReleaseAlwaysEarliest ==
    [][\A t \in Threads :
          (/\ ComputesRelease(t)
           /\ frame[t].planned <= Capacity
           /\ UsageOf(kind, usage_window) <= frame[t].current_usage) =>
              ReleaseIsCrossingAndEarliest(t)]_vars

\* C14 as amended: the same, provided the window scanned still adds up to the
\* current_usage the call read (always so for a single caller); and for a
\* planned amount above the capacity no release instant is computed.
C14_ReleaseEarliestIfUnchanged ==
    [][\A t \in Threads :
          (/\ ComputesRelease(t)
           /\ UsageOf(kind, usage_window) = frame[t].current_usage) =>
              IF frame[t].planned <= Capacity
              THEN ReleaseIsCrossingAndEarliest(t)
              ELSE frame'[t].wait_until = None]_vars

\* C14 witness: a release instant has been computed from a window of two
\* events recorded at different instants, and it is the second event's.
C14_Witness ==
    \E t \in Threads :
        /\ kind = "token"
        /\ frame[t].pc = "wait_decide"
        /\ frame[t].planned <= Capacity
        /\ Len(usage_window) = 2
        /\ usage_window[1].ts < usage_window[2].ts
        /\ frame[t].wait_until = usage_window[2].ts + Window(kind)
        /\ IsEarliestRelease(frame[t].wait_until, usage_window, frame[t].planned)

\* C15: every sleep wait_if_needed asks for is bounded -- at most the slice
\* cap (5 s for tokens, 30 s for users) towards a release instant, exactly the
\* fallback second when no release instant was found, which happens only in
\* TokenRateLimiter -- and a thread that wakes up queries the usage again
\* (clock read, eviction, sum, admission check) before it sleeps or returns.
C15_SleepsBoundedAndRechecked ==
    [][\A t \in Threads :
          /\ (frame[t].pc # "sleeping" /\ frame'[t].pc = "sleeping") =>
                 /\ frame[t].pc = "wait_decide"
                 /\ frame'[t].wake_at - now > 0
                 /\ IF frame[t].wait_until # None
                    THEN frame'[t].wake_at - now <= SleepCap(kind)
                    ELSE /\ kind = "token"
                         /\ frame'[t].wake_at - now = FallbackSleep
          /\ (frame[t].pc = "sleeping" /\ frame'[t] # frame[t]) =>
                 /\ frame'[t].pc = "clean_now"
                 /\ frame'[t].cleanFor = "get_current_usage"
                 /\ frame'[t].op = "wait_if_needed"
          /\ (/\ frame[t].op = "wait_if_needed"
              /\ frame[t].cleanFor = "get_current_usage"
              /\ frame'[t] # frame[t]) =>
                 /\ frame[t].pc = "clean_now" => frame'[t].pc = "clean_lock"
                 /\ frame[t].pc = "clean_lock" => frame'[t].pc = "sum_lock"
                 /\ frame[t].pc = "sum_lock" =>
                        /\ frame'[t].pc = "wait_check"
                        /\ frame'[t].current_usage = UsageOf(kind, usage_window)
          /\ (frame[t].op = "wait_if_needed" /\ frame'[t].pc \in {"ret", "break"}
                  /\ frame'[t] # frame[t]) =>
                 frame[t].pc \in {"wait_check", "break"}]_vars

\* C15 witness: a thread that has already slept and re-queried is asleep
\* again, in a slice that ends before the release instant of the oldest event.
C15_Witness ==
    \E t \in Threads :
        /\ frame[t].pc = "sleeping"
        /\ frame[t].wait_time > 0
        /\ usage_window # <<>>
        /\ frame[t].wake_at < usage_window[1].ts + Window(kind)

\* C16: under any interleaving of add_tokens / add_user, get_current_usage and
\* wait_if_needed by several threads, the usage window is ordered by timestamp,
\* non-decreasing.
C16_WindowOrdered ==
    \A i \in 1..Len(usage_window), j \in 1..Len(usage_window) :
        i < j => usage_window[i].ts <= usage_window[j].ts

\* C16 witness: the window holds two events recorded at different instants
\* while both threads are inside calls, one of them about to evict.
C16_Witness ==
    /\ Len(usage_window) = 2
    /\ usage_window[1].ts < usage_window[2].ts
    /\ frame[1].pc # "idle"
    /\ frame[2].pc # "idle"
    /\ \E t \in Threads : frame[t].pc = "clean_lock"

\* C17: add_tokens(n) / add_user() appends exactly one event (now, n) at the
\* end of the window and leaves every entry it finds in place, expired or
\* not: the window grows by exactly one.
C17_AddOnlyAppends ==
    [][history' # history =>
          \E t \in Threads :
              /\ frame[t].pc = "ret"
              /\ frame'[t].pc = "idle"
              /\ usage_window' =
                     Append(usage_window,
                            [ts |-> now, count |-> frame[t].planned])
              /\ Len(usage_window') = Len(usage_window) + 1
              /\ SubSeq(usage_window', 1, Len(usage_window)) = usage_window]_vars

\* C17 witness: an event has just been appended to a window whose first entry
\* had expired by then, and the expired entry is still there.
C17_Witness ==
    /\ Len(usage_window) = 2
    /\ usage_window = history
    /\ usage_window[2].ts = now
    /\ now - usage_window[1].ts >= Window(kind)
    /\ \E t \in Threads : frame[t].pc = "idle"

\* thread t takes a step of wait_if_needed: the call, a step inside, the return
StepsInWait(t) ==
    /\ frame'[t] # frame[t]
    /\ frame[t].op = "wait_if_needed" \/ frame'[t].op = "wait_if_needed"

\* C18: no step of wait_if_needed appends to the window or records anything:
\* the window after the step is the window before without some expired
\* entries, so the unexpired events change only by what other threads record.
C18_WaitOnlyEvictsExpired ==
    [][\A t \in Threads :
          StepsInWait(t) =>
              /\ history' = history
              /\ usage_window' =
                     SelectSeq(usage_window,
                         LAMBDA e : \E i \in 1..Len(usage_window') :
                                        usage_window'[i] = e)
              /\ \A e \in Removed(usage_window, usage_window') :
                     now - e.ts >= Window(kind)
              /\ Live(usage_window', now') = Live(usage_window, now)]_vars

\* C18 witness: a wait_if_needed that has slept is back at its admission
\* check; the event that blocked it has been evicted, and the window holds
\* the event another thread recorded during the wait.
C18_Witness ==
    \E t \in Threads :
        /\ frame[t].op = "wait_if_needed"
        /\ frame[t].pc = "wait_check"
        /\ frame[t].wait_time > 0
        /\ Len(history) = 2
        /\ history[2].ts > frame[t].start_wait
        /\ usage_window = <<history[2]>>

\* the holder of the lock can run the body of its block and release the lock
HolderProceeds == lock \in Threads /\ ENABLED Critical(lock)

\* C19: no thread sleeps while it holds the lock, and add_tokens / add_user /
\* get_current_usage never sleep; the holder of the lock stands inside a with
\* block whose body it can run to the release, so that it never waits for the
\* lock it holds; and every thread inside a call that is not asleep can take
\* its next step, or waits for a lock whose holder can: a sleeping worker
\* blocks nobody, and no deadlock is reachable.
C19_NoSleepNoDeadlockUnderLock ==
    \A t \in Threads :
        /\ frame[t].pc = "sleeping" =>
               /\ lock # t
               /\ frame[t].op = "wait_if_needed"
        /\ lock = t => AtLock(t) /\ HolderProceeds
        /\ (lock # t /\ frame[t].pc \notin {"idle", "sleeping"}) =>
               \/ ENABLED (Acquire(t) \/ Outside(t))
               \/ lock # 0 /\ HolderProceeds

\* C19 witness: a worker is asleep inside wait_if_needed while another thread
\* holds the lock inside get_current_usage.
C19_Witness ==
    \E t \in Threads, u \in Threads :
        /\ frame[t].pc = "sleeping"
        /\ frame[t].wake_at > now
        /\ lock = u
        /\ frame[u].op = "get_current_usage"
        /\ frame[u].pc = "sum_lock"

\* every worker of the pool has finished and the list is used up
AllFinished == todo = 0 /\ \A t \in Threads : frame[t].pc = "idle"

\* C20: the workers of the pool lose no increment of the match counter: once
\* all of them have finished, wikipedia_matches is the number of pages that
\* were verified as a match.
C20_NoIncrementLost ==
    AllFinished => wikipedia_matches = matched


C22_OneEntryPerUser ==
    chain.pc = "done" =>
        /\ Len(chain.saved) = Len(chain.users)
        /\ \A i \in 1..Len(chain.saved) : chain.saved[i].user = i

\* the call of process_user for the user at position chain.i is under way or
\* has just returned
InProcessUser == chain.pc \in {"add_user", "check", "verify", "append"}

\* the user has no name or no description
Incomplete(user) == ~user.name \/ ~user.description

\* C23: every call of process_user first passes the user gate and then records
\* exactly one user event, before anything else; a call for a user without a
\* name or description returns having added that one event to the user
\* window, with no Wikipedia call, no LLM call and no token record.
C23_GateAndOneUserEventFirst ==
    InProcessUser =>
        LET tr == chain.trace
            recorded == {j \in 1..Len(tr) : tr[j] = "add_user"}
        IN  /\ tr[1] = "wait_if_needed"
            /\ chain.pc = "add_user" => tr = <<"wait_if_needed">>
            /\ chain.pc # "add_user" =>
                   /\ recorded = {2}
                   /\ Len(chain.user_window) = Len(chain.users_at_call) + 1
                   /\ SubSeq(chain.user_window, 1, Len(chain.users_at_call))
                          = chain.users_at_call
            /\ (chain.pc = "append" /\ Incomplete(chain.users[chain.i])) =>
                   /\ tr = <<"wait_if_needed", "add_user">>
                   /\ chain.token_window = chain.tokens_at_call
                   /\ chain.returned = Entry(chain.i, FALSE)

\* a user without a name or description was skipped after an earlier user's
\* verification had recorded tokens
C23_Witness ==
    /\ chain.pc = "append"
    /\ Incomplete(chain.users[chain.i])
    /\ chain.token_window # <<>>
    /\ Len(chain.user_window) >= 2

\* the requests search has made, and those of them handled as a failed request
BraveRequests == {j \in 1..Len(brave.log) : brave.log[j] # "sleep"}
BraveFailed == {j \in 1..Len(brave.log) : brave.log[j] = "RequestException"}

\* C24: search makes at most max_retries requests; a successful response ends
\* the call and is returned; every sleep of retry_delay follows a failed
\* request and is followed by another attempt; and once max_retries requests
\* have failed the call has returned {}.
C24_RetryDiscipline ==
    brave.pc \in {"loop", "done"} =>
        /\ Cardinality(BraveRequests) <= brave.max_retries
        /\ \A j \in 1..Len(brave.log) :
               /\ brave.log[j] = "ok" =>
                      /\ j = Len(brave.log)
                      /\ brave.pc = "done"
                      /\ brave.result = "response"
               /\ brave.log[j] = "sleep" =>
                      /\ j > 1
                      /\ brave.log[j - 1] = "RequestException"
                      /\ Cardinality({i \in BraveRequests : i < j})
                             < brave.max_retries
                      /\ j < Len(brave.log) \/ brave.pc = "loop"
        /\ brave.slept
               = brave.retry_delay
                     * Cardinality({j \in 1..Len(brave.log) :
                                        brave.log[j] = "sleep"})
        /\ (brave.pc = "done" /\ Cardinality(BraveFailed) = brave.max_retries)
               => brave.result = "empty"

\* C25: whatever max_retries >= 0 and whatever the requests' outcomes, search
\* returns a dict -- the parsed response or {} -- never None, and raises
\* nothing.
C25_AlwaysReturnsDict ==
    brave.pc = "done" => brave.result \in {"response", "empty"}

\* C26: download_user_profiles saves its first batch in mode "w" and every
\* later one in mode "a", and when it has returned after saving a batch the
\* output file holds the profiles that were downloaded, each once, and
\* nothing else.
C26_FileHoldsDownloaded ==
    (download.pc = "done" /\ download.modes # <<>>) =>
        /\ \A j \in 1..Len(download.modes) :
               download.modes[j] = IF j = 1 THEN "w" ELSE "a"
        /\ download.file.data = download.profiles

RECURSIVE FollowsUpTo(_)
FollowsUpTo(j) ==
    IF j = 0 THEN <<>>
    ELSE FollowsUpTo(j - 1)
             \o (IF paging.served[j].raises THEN <<>>
                 ELSE FollowsOf(j, paging.served[j]))

\* the request ended the paging: it raised, or its page had no cursor
Ends(page) == page.raises \/ page.cursor \in {"None", ""}

\* C28: get_follows goes on exactly while every page so far came with a
\* cursor; the first page without one, or the first request that raises, ends
\* the call, which returns the follows of all pages received, in page order,
\* and raises nothing.
C28_StopsAndReturnsAllPages ==
    paging.pc \in {"loop", "done"} =>
        LET n == Len(paging.served)
        IN  /\ \A j \in 1..(n - 1) : ~Ends(paging.served[j])
            /\ paging.pc = "loop" =>
                   \A j \in 1..n : ~Ends(paging.served[j])
            /\ paging.pc = "done" =>
                   /\ n >= 1
                   /\ Ends(paging.served[n])
                   /\ paging.returned = FollowsUpTo(n)

\* a request raised after two pages with follows had been received, and
\* their follows were returned
C28_Witness ==
    /\ paging.pc = "done"
    /\ Len(paging.served) >= 3
    /\ paging.served[Len(paging.served)].raises
    /\ paging.served[1].follows > 0
    /\ paging.served[2].follows > 0
    /\ Len(paging.returned)
           >= paging.served[1].follows + paging.served[2].follows

====
